---- MODULE Spec2Model ----
(***************************************************************************)
(* llvmcov2html: the segment-to-line reconstruction of src/main.cpp.       *)
(*                                                                         *)
(* A text is a sequence of one-character strings; positions inside the     *)
(* operators are 0-based as in the C++ code, and converted to the 1-based  *)
(* indices of TLA+ sequences only where a sequence is indexed.             *)
(***************************************************************************)
EXTENDS Integers, Sequences, FiniteSets, TLC

\* ------------------------------------------------------------------------
\* Bounds of the model
\* ------------------------------------------------------------------------

\* Number of coverage segments fed to one reader.
MaxEvents == 3

\* Number of lines of the files given to the constructor on its own.
MaxLines == 3

\* Length of the texts given to isTrivialCode on its own.
MaxLen == 3

\* Number of source files of one run of main.
MaxFiles == 3

\* ------------------------------------------------------------------------
\* Machine arithmetic
\*
\* unsigned is 32 bits wide and TLC's integers end at 2^31 - 1.  The values
\* the program holds stay below 2^31 in this model; the one product that can
\* pass 2^32, hitLines * 1000, is computed modulo 2^32 into a pair
\* [top, rest] that stands for top * 2^31 + rest, with top in {0, 1}.
\* ------------------------------------------------------------------------

\* 2^31 - 1
MaxInt == (2 ^ 30 - 1) + 2 ^ 30

\* ~0u as a length: 2^32 - 1 in the code; every length of the model is below
\* 2^31, so the largest integer of TLC compares with them as ~0u does.
AllOnes == MaxInt

Max(a, b) == IF a >= b THEN a ELSE b

\* x + y modulo 2^32, for x, y < 2^31.
AddWide(x, y) ==
    IF x > MaxInt - y
    THEN [top |-> 1, rest |-> (x - (MaxInt - y)) - 1]
    ELSE [top |-> 0, rest |-> x + y]

\* v * 1000 modulo 2^32, for v < 2^31: with v = h * 2^16 + l the product is
\* ((h * 1000) mod 2^16) * 2^16 + l * 1000, modulo 2^32.
Times1000(v) ==
    LET h == v \div (2 ^ 16)
        l == v % (2 ^ 16)
        a == (h * 1000) % (2 ^ 16)
        sum == AddWide((a % (2 ^ 15)) * (2 ^ 16), l * 1000)
    IN  [top |-> ((a \div (2 ^ 15)) + sum.top) % 2, rest |-> sum.rest]

\* x / e in unsigned arithmetic, for x a pair and 0 < e < 2^31:
\* 2^31 + r = (MaxInt \div e) * e + (r \div e) * e + (MaxInt % e + 1 + r % e).
DivWide(x, e) ==
    IF x.top = 0 THEN x.rest \div e
    ELSE (MaxInt \div e) + (x.rest \div e)
         + (IF (MaxInt % e) + 1 >= e - (x.rest % e) THEN 1 ELSE 0)

\* ------------------------------------------------------------------------
\* Texts
\* ------------------------------------------------------------------------

MarkStart == <<"L", "C", "O", "V", "_", "E", "X", "C", "L", "_", "S", "T", "A", "R", "T">>

MarkStop == <<"L", "C", "O", "V", "_", "E", "X", "C", "L", "_", "S", "T", "O", "P">>

MarkLine == <<"L", "C", "O", "V", "_", "E", "X", "C", "L", "_", "L", "I", "N", "E">>

\* s.find(pat) != string::npos
Contains(s, pat) ==
    \E k \in 0..(Len(s) - Len(pat)) : SubSeq(s, k + 1, k + Len(pat)) = pat

\* s.substr(from, len) for from <= s.length(): at most len characters.
Substr(s, from, len) ==
    SubSeq(s, from + 1, IF Len(s) - from <= len THEN Len(s) ELSE from + len)

\* The character class \s of the regular expression.
IsSpace(c) == c \in {" ", "\t", "\n", "\r", "\f"}

IsBrace(c) == c \in {"{", "}"}

\* The end of the longest run of spaces that starts at position from of s:
\* what \s* consumes there.
RECURSIVE SpaceRun(_, _)
SpaceRun(s, from) ==
    IF from < Len(s) /\ IsSpace(s[from + 1]) THEN SpaceRun(s, from + 1) ELSE from

\* The same for [{}]*.
RECURSIVE BraceRun(_, _)
BraceRun(s, from) ==
    IF from < Len(s) /\ IsBrace(s[from + 1]) THEN BraceRun(s, from + 1) ELSE from

\* Mutant of isTrivialCode: the regular expression without \s, that is
\* ^;$ | ^[{}]*$ | ^t$.
isTrivialCodeNoSpace(code) ==
    \/ code = <<";">>
    \/ BraceRun(code, 0) = Len(code)
    \/ code = <<"t">>

\* regex_match(code, ^\s*$ | ^;$ | ^\s*[{}]*\s*$ | ^t$): the whole text matches
\* one of the four alternatives.  \s and [{}] share no character, so
\* \s*[{}]*\s* matches the whole text exactly when a run of spaces, a run of
\* braces and a run of spaces, each the longest, end at its end.
isTrivialCode(code) ==
    \/ SpaceRun(code, 0) = Len(code)
    \/ code = <<";">>
    \/ SpaceRun(code, BraceRun(code, SpaceRun(code, 0))) = Len(code)
    \/ code = <<"t">>

\* Mutant of getSubstr: the substring is taken from the start of s.
getSubstrFromStart(s, from, len) == Substr(s, 0, len)

\* A substring that tolerates from and len past the end of s.
getSubstr(s, from, len) ==
    IF from >= Len(s) THEN <<>>
    ELSE IF Len(s) - from <= len THEN Substr(s, from, Len(s) - from)
    ELSE Substr(s, from, len)

\* Percentage (x10), in 32-bit unsigned arithmetic.
computePerc(hit, executable) ==
    IF hit = 0 \/ executable = 0 THEN 0
    ELSE LET perc == DivWide(Times1000(hit), executable)
         IN  IF perc = 0 THEN 1 ELSE perc

\* ------------------------------------------------------------------------
\* SourceReader::SourceReader
\* ------------------------------------------------------------------------

\* struct LineInfo
LineInfo(s, from, to) == [line |-> s, ignoreFrom |-> from, ignoreTo |-> to]

\* any_of(extraIgnore, non-empty and found in s)
MatchesExtraIgnore(s, extraIgnore) ==
    \E e \in 1..Len(extraIgnore) :
        extraIgnore[e] # <<>> /\ Contains(s, extraIgnore[e])

\* The getline loop: raw[k..] are the lines still to read, ignoreBlock the
\* block flag, acc the vectors lines and ignoreLines built so far.
RECURSIVE ReadLines(_, _, _, _, _)
ReadLines(raw, extraIgnore, k, ignoreBlock, acc) ==
    IF k > Len(raw) THEN acc
    ELSE
      LET s == raw[k]
          opens == ~ignoreBlock /\ Contains(s, MarkStart)
          single == /\ ~ignoreBlock
                    /\ ~opens
                    /\ \/ Contains(s, MarkLine)
                       \/ MatchesExtraIgnore(s, extraIgnore)
          ignoreLine == ignoreBlock \/ opens \/ single
          block == IF ignoreBlock THEN ~Contains(s, MarkStop) ELSE opens
          info == LineInfo(s, 0, IF ignoreLine THEN Len(s) + 1 ELSE 0)
      IN  ReadLines(raw, extraIgnore, k + 1, block,
                    [lines |-> Append(acc.lines, info),
                     ignoreLines |-> IF single
                                     THEN Append(acc.ignoreLines, Len(acc.lines))
                                     ELSE acc.ignoreLines])

\* The first loop of the constructor.
FirstPass(raw, extraIgnore) ==
    ReadLines(raw, extraIgnore, 1, FALSE, [lines |-> <<>>, ignoreLines |-> <<>>])

IsTrailSkip(c) == c \in {" ", "\t", "\n", "\r", "{", "}"}

IsLeadSkip(c) == c \in {" ", "\t", "\n", "\r", "}"}

\* for (stop = l.size(); stop; --stop) if (l[stop - 1] is no skip character) break;
RECURSIVE TrailStop(_, _)
TrailStop(l, stop) ==
    IF stop > 0 /\ IsTrailSkip(l[stop]) THEN TrailStop(l, stop - 1) ELSE stop

\* for (; stop < limit; stop++) if (l[stop] is no skip character) break;
RECURSIVE LeadStop(_, _)
LeadStop(l, stop) ==
    IF stop < Len(l) /\ IsLeadSkip(l[stop + 1]) THEN LeadStop(l, stop + 1) ELSE stop

\* Mutant of Widened: every widening takes the whole line.
WidenedWhole(i, from) == [i EXCEPT !.ignoreFrom = 0, !.ignoreTo = Len(i.line)]

\* The span of a line that is widened to [from, size).
Widened(i, from) ==
    IF i.ignoreFrom # i.ignoreTo
    THEN [i EXCEPT !.ignoreFrom = 0, !.ignoreTo = Len(i.line)]
    ELSE [i EXCEPT !.ignoreFrom = from, !.ignoreTo = Len(i.line)]

\* The span of a line that is widened to [0, to).
WidenedHead(i, to) ==
    IF i.ignoreFrom # i.ignoreTo
    THEN [i EXCEPT !.ignoreFrom = 0, !.ignoreTo = Len(i.line)]
    ELSE [i EXCEPT !.ignoreFrom = 0, !.ignoreTo = to]

\* for (unsigned prev = line; prev > 0;) { auto& i = lines[--prev]; ... }
RECURSIVE WidenBackward(_, _)
WidenBackward(lines, prev) ==
    IF prev = 0 THEN lines
    ELSE
      LET i == lines[prev]
          l == i.line
          stop0 == TrailStop(l, Len(l))
          willBreak == stop0 > 0
          stop == IF stop0 > 0 /\ l[stop0] = ";" THEN stop0 - 1 ELSE stop0
          ls == IF stop < Len(l)
                THEN [lines EXCEPT ![prev] = Widened(i, stop)]
                ELSE lines
      IN  IF willBreak THEN ls ELSE WidenBackward(ls, prev - 1)

\* for (unsigned next = line + 1; next < lines.size(); ++next) { ... }
RECURSIVE WidenForward(_, _)
WidenForward(lines, next) ==
    IF next >= Len(lines) THEN lines
    ELSE
      LET i == lines[next + 1]
          l == i.line
          stop == LeadStop(l, 0)
          ls == IF stop > 0
                THEN [lines EXCEPT ![next + 1] = WidenedHead(i, stop)]
                ELSE lines
      IN  IF stop < Len(l) THEN ls ELSE WidenForward(ls, next + 1)

\* for (auto line : ignoreLines): the second loop of the constructor.
RECURSIVE SecondPass(_, _, _)
SecondPass(lines, ignoreLines, k) ==
    IF k > Len(ignoreLines) THEN lines
    ELSE SecondPass(WidenForward(WidenBackward(lines, ignoreLines[k]),
                                 ignoreLines[k] + 1),
                    ignoreLines, k + 1)

\* The vector lines of a reader constructed over the text raw.
SourceReaderLines(raw, extraIgnore) ==
    LET first == FirstPass(raw, extraIgnore)
    IN  SecondPass(first.lines, first.ignoreLines, 1)

\* ------------------------------------------------------------------------
\* SourceWriter
\* ------------------------------------------------------------------------

\* struct Part
Part(str, count, hasCode, regionEntry) ==
    [str |-> str, count |-> count, hasCode |-> hasCode, regionEntry |-> regionEntry]

\* bool code = p.hasCode; if (isTrivialCode(p.str)) code = false;
PartCode(p) == p.hasCode /\ ~isTrivialCode(p.str)

\* bool hit = p.count; if (isTrivialCode(p.str)) hit = false;
PartHit(p) == p.count # 0 /\ ~isTrivialCode(p.str)

CountParts(parts, P(_)) == Cardinality({k \in 1..Len(parts) : P(parts[k])})

RECURSIVE MaxCount(_, _)
MaxCount(parts, k) ==
    IF k > Len(parts) THEN 0 ELSE Max(parts[k].count, MaxCount(parts, k + 1))

RegionEntryHit(p) == p.regionEntry /\ p.count # 0

\* SourceWriter::addData on the state s of reader, writer and coverage list.
addData(s, str, count, hasData, regionEntry) ==
    [s EXCEPT !.parts = Append(@, Part(str, count, hasData, regionEntry))]

\* SourceWriter::finishLine: the statistics, the hit and miss lists, and the
\* line written to out (its number, its counters and its fragments).
finishLine(s, lineNo) ==
    LET candidates == CountParts(s.parts, PartCode)
        hitCandidates == CountParts(s.parts, PartHit)
        written == [lineNo |-> lineNo,
                    candidates |-> candidates,
                    hitCandidates |-> hitCandidates,
                    regionEntry |-> CountParts(s.parts, RegionEntryHit),
                    maxCount |-> MaxCount(s.parts, 1),
                    parts |-> s.parts]
    IN  [s EXCEPT
          !.executableLines = IF candidates > 0 THEN @ + 1 ELSE @,
          !.hitLines = IF candidates > 0 /\ hitCandidates > 0
                       THEN @ + 1 ELSE @,
          !.hits = IF candidates > 0 /\ hitCandidates > 0
                   THEN Append(@, lineNo) ELSE @,
          !.misses = IF candidates > 0 /\ hitCandidates = 0
                     THEN Append(@, lineNo) ELSE @,
          !.out = Append(@, written),
          !.parts = <<>>]

\* ------------------------------------------------------------------------
\* SourceReader::skipTo and SourceReader::flush
\*
\* s is the state of one reader with its writer and its entry of the coverage
\* list.  s.fault records how a call ended: "none", "out_of_range" (substr
\* threw) or "invalid_read" (a read of lines[lineNo - 1] with lineNo = 0).
\* ------------------------------------------------------------------------

\* lines[lineNo - 1]
LineAt(s, lineNo) == s.lines[lineNo]

\* (ignoreFrom <= colPos) && (colPos < ignoreTo)
IgnoredAt(i, colPos) == i.ignoreFrom <= colPos /\ colPos < i.ignoreTo

\* Mutant of CodeUnless: the exclusion span is not looked at.
CodeWhateverSpan(ignore, count, hasCode) == hasCode

\* hasCode && (count || !ignore)
CodeUnless(ignore, count, hasCode) == hasCode /\ (count # 0 \/ ~ignore)

\* skipTo, lines 308-314: the rest of the open line, and the line is finished.
CloseLine(s, count, hasCode, regionEntry) ==
    IF s.lineNo = 0 THEN s
    ELSE
      LET i == LineAt(s, s.lineNo)
          rest == IF s.colPos < Len(i.line)
                  THEN addData(s, getSubstr(i.line, s.colPos, AllOnes), count,
                               CodeUnless(IgnoredAt(i, s.colPos), count, hasCode),
                               s.lineNo = regionEntry)
                  ELSE s
      IN  finishLine(rest, s.lineNo)

\* Mutant of SkippedLine: a skipped line is emitted as flush emits a line.
SkippedLineUncounted(s, i, count, hasCode, regionEntry) ==
    addData(s, i.line, 0, FALSE, FALSE)

\* skipTo, lines 324-333: the fragments of a line that is skipped as a whole.
SkippedLine(s, i, count, hasCode, regionEntry) ==
    IF i.ignoreFrom # i.ignoreTo /\ (i.ignoreFrom # 0 \/ i.ignoreTo # Len(i.line))
    THEN
      LET a == IF i.ignoreFrom # 0
               THEN addData(s, getSubstr(i.line, 0, i.ignoreFrom), count, hasCode,
                            s.lineNo = regionEntry)
               ELSE s
          b == addData(a, getSubstr(i.line, i.ignoreFrom, i.ignoreTo - i.ignoreFrom),
                       count, hasCode /\ count # 0, s.lineNo = regionEntry)
      IN  IF i.ignoreTo < Len(i.line)
          THEN addData(b, getSubstr(i.line, i.ignoreTo, Len(i.line)), count, hasCode,
                       s.lineNo = regionEntry)
          ELSE b
    ELSE addData(s, i.line, count,
                 CodeUnless(i.ignoreFrom # i.ignoreTo, count, hasCode),
                 s.lineNo = regionEntry)

\* skipTo, lines 315-336: while (lineNo < targetLine) { ... }
RECURSIVE SkipLines(_, _, _, _, _)
SkipLines(s, targetLine, count, hasCode, regionEntry) ==
    IF ~(s.lineNo < targetLine) \/ s.lineNo >= Len(s.lines) THEN s
    ELSE
      LET i == s.lines[s.lineNo + 1]
          entered == [s EXCEPT !.lineNo = @ + 1, !.colPos = 0]
          done == IF entered.lineNo < targetLine
                  THEN finishLine(SkippedLine(entered, i, count, hasCode, regionEntry),
                                  entered.lineNo)
                  ELSE entered
      IN  SkipLines(done, targetLine, count, hasCode, regionEntry)

\* skipTo, lines 307-337.
AdvanceLine(s, targetLine, count, hasCode, regionEntry) ==
    IF targetLine > s.lineNo
    THEN SkipLines(CloseLine(s, count, hasCode, regionEntry),
                   targetLine, count, hasCode, regionEntry)
    ELSE s

\* skipTo, line 338: the test that leads to the read of lines[lineNo - 1].
AdvancesColumn(s, col) == col > s.colPos + 1

\* A call skipTo(line, col, ...) with line >= 1 reads lines[lineNo - 1] with
\* lineNo = 0 when no line could be entered, that is when lines is empty.
ReadsNoLine(s, col) == s.lineNo = 0 /\ Len(s.lines) = 0 /\ AdvancesColumn(s, col)

\* skipTo, lines 338-342.  read is what lines[lineNo - 1] yields when
\* lineNo = 0: a crash, or some LineInfo.
AdvanceColumn(s, col, count, hasCode, regionEntry, read) ==
    IF ~AdvancesColumn(s, col) THEN s
    ELSE IF s.lineNo = 0 /\ read.crash THEN [s EXCEPT !.fault = "invalid_read"]
    ELSE
      LET i == IF s.lineNo = 0 THEN read ELSE LineAt(s, s.lineNo)
          emitted == addData(s, getSubstr(i.line, s.colPos, (col - 1) - s.colPos),
                             count,
                             CodeUnless(IgnoredAt(i, s.colPos), count, hasCode),
                             s.lineNo = regionEntry)
      IN  [emitted EXCEPT !.colPos = col - 1]

\* SourceReader::skipTo
skipTo(s, targetLine, col, count, hasCode, regionEntry, read) ==
    AdvanceColumn(AdvanceLine(s, targetLine, count, hasCode, regionEntry),
                  col, count, hasCode, regionEntry, read)

\* flush, lines 353-356: for (limit = lines.size(); lineNo <= limit; ++lineNo)
RECURSIVE FlushLines(_, _)
FlushLines(s, read) ==
    IF ~(s.lineNo <= Len(s.lines)) THEN s
    ELSE IF s.lineNo = 0 /\ read.crash THEN [s EXCEPT !.fault = "invalid_read"]
    ELSE
      LET i == IF s.lineNo = 0 THEN read ELSE LineAt(s, s.lineNo)
          done == finishLine(addData(s, i.line, 0, FALSE, FALSE), s.lineNo)
      IN  FlushLines([done EXCEPT !.lineNo = @ + 1], read)

\* Mutant of FlushOpenLine: the rest of the open line is added as code.
FlushOpenLineAsCode(s) ==
    IF s.lineNo = 0 THEN s
    ELSE
      LET i == LineAt(s, s.lineNo)
      IN  IF s.colPos > Len(i.line) THEN [s EXCEPT !.fault = "out_of_range"]
          ELSE [finishLine(addData(s, Substr(i.line, s.colPos, AllOnes), 0, TRUE, FALSE),
                           s.lineNo)
                EXCEPT !.lineNo = @ + 1]

\* flush, lines 348-352: line.substr(colPos) throws when colPos > line.size().
FlushOpenLine(s) ==
    IF s.lineNo = 0 THEN s
    ELSE
      LET i == LineAt(s, s.lineNo)
      IN  IF s.colPos > Len(i.line) THEN [s EXCEPT !.fault = "out_of_range"]
          ELSE [finishLine(addData(s, Substr(i.line, s.colPos, AllOnes), 0, FALSE, FALSE),
                           s.lineNo)
                EXCEPT !.lineNo = @ + 1]

\* SourceReader::flush
flush(s, read) ==
    LET closed == FlushOpenLine(s)
    IN  IF closed.fault # "none" THEN closed ELSE FlushLines(closed, read)

\* ------------------------------------------------------------------------
\* Inputs
\* ------------------------------------------------------------------------

TxtIf == <<"i", "f", " ", "(", "x", ")", " ", "{">>

TxtFoo == <<" ", " ", "f", "o", "o", "(", ")", ";">>

TxtBrace == <<"}">>

TxtReturn == <<"r", "e", "t", "u", "r", "n", " ", "1", ";">>

TxtCall == <<"a", "(", ")", ";">>

TxtExclLine == <<"b", ";", "/", "/">> \o MarkLine

TxtStart == <<"/", "/">> \o MarkStart

TxtStop == <<"/", "/">> \o MarkStop

TxtStartStop == <<"/", "*">> \o MarkStart \o <<" ">> \o MarkStop \o <<"*", "/">>

TxtStopStart == <<"/", "*">> \o MarkStop \o <<" ">> \o MarkStart \o <<"*", "/">>

TxtSemiBrace == <<"a", ";", " ", "}">>

TxtShort == <<"x", ";">>

\* A source file that can be opened, with its text.
File(text) == [isOpen |-> TRUE, text |-> text]

\* The file that cannot be opened.
NoFile == [isOpen |-> FALSE, text |-> <<>>]

\* The --exclude-line arguments.
ExtraIgnores == { << >>, << <<>>, <<"f", "o", "o">> >> }

\* The runs of processCode: a source file and the --exclude-line arguments.
Job(file, extraIgnore) == [file |-> file, extraIgnore |-> extraIgnore]

Jobs ==
    { Job(File(<<TxtIf, TxtFoo, TxtBrace>>), << >>),
      Job(File(<<TxtIf, TxtFoo, TxtBrace>>), << <<>>, <<"f", "o", "o">> >>),
      Job(File(<<TxtReturn>>), << >>),
      Job(File(<<TxtShort>>), << >>),
      Job(File(<<TxtCall, TxtExclLine>>), << >>),
      Job(File(<<TxtStart, TxtCall>>), << >>),
      Job(File(<< >>), << >>),
      Job(NoFile, << >>) }

\* What a read of lines[lineNo - 1] with lineNo = 0 can yield.
InvalidReads ==
    { [crash |-> TRUE, line |-> <<>>, ignoreFrom |-> 0, ignoreTo |-> 0],
      [crash |-> FALSE, line |-> <<>>, ignoreFrom |-> 0, ignoreTo |-> 0],
      [crash |-> FALSE, line |-> <<"x">>, ignoreFrom |-> 0, ignoreTo |-> 0],
      [crash |-> FALSE, line |-> <<"x">>, ignoreFrom |-> 0, ignoreTo |-> 2] }

\* The read when lineNo # 0: lines[lineNo - 1] is an element of lines.
ValidRead == [crash |-> FALSE, line |-> <<>>, ignoreFrom |-> 0, ignoreTo |-> 0]

\* llvm::coverage::CoverageSegment
Segment(line, col, count, hasCount, isRegionEntry, isGapRegion) ==
    [Line |-> line, Col |-> col, Count |-> count, HasCount |-> hasCount,
     IsRegionEntry |-> isRegionEntry, IsGapRegion |-> isGapRegion]

Cols == {1, 3, 500}

\* What a segment says of the text after it: uncovered code, covered code
\* (counts 3 and 5), a gap region with the count of its surroundings, and
\* the end of the instrumented regions (the segment without a count).
SegmentKinds ==
    { [Count |-> 0, HasCount |-> TRUE, IsRegionEntry |-> TRUE, IsGapRegion |-> FALSE],
      [Count |-> 3, HasCount |-> TRUE, IsRegionEntry |-> TRUE, IsGapRegion |-> FALSE],
      [Count |-> 5, HasCount |-> TRUE, IsRegionEntry |-> TRUE, IsGapRegion |-> FALSE],
      [Count |-> 3, HasCount |-> TRUE, IsRegionEntry |-> FALSE, IsGapRegion |-> TRUE],
      [Count |-> 0, HasCount |-> FALSE, IsRegionEntry |-> FALSE, IsGapRegion |-> FALSE] }

\* The segments a file of n lines can get: its lines and one line past its end.
Segments(n) ==
    { Segment(line, col, k.Count, k.HasCount, k.IsRegionEntry, k.IsGapRegion) :
        line \in 1..(n + 1), col \in Cols, k \in SegmentKinds }

\* (line, col) of a before or at (line, col) of b.
NotAfter(a, b) == a[1] < b[1] \/ (a[1] = b[1] /\ a[2] <= b[2])

\* The event streams of the documented scenarios, by name.
Scenario(name) ==
    CASE name = "if" ->
           [file |-> <<TxtIf, TxtFoo, TxtBrace>>,
            extraIgnore |-> << >>,
            data |-> << Segment(1, 1, 3, TRUE, TRUE, FALSE),
                        Segment(2, 3, 0, TRUE, TRUE, FALSE),
                        Segment(3, 1, 3, TRUE, TRUE, FALSE) >>]
      [] name = "return" ->
           [file |-> <<TxtReturn>>,
            extraIgnore |-> << >>,
            data |-> << Segment(1, 1, 5, TRUE, TRUE, FALSE) >>]

ScenarioNames == {"if", "return"}

\* ------------------------------------------------------------------------
\* processCode, processFile and the file loop of main as functions
\* ------------------------------------------------------------------------

\* The reader and writer of processCode, lines 369-370, over the vector lines.
NewReader(ls) ==
    [lines |-> ls, lineNo |-> 0, colPos |-> 0, parts |-> <<>>,
     executableLines |-> 0, hitLines |-> 0, hits |-> <<>>, misses |-> <<>>,
     out |-> <<>>, fault |-> "none"]

\* processCode, lines 374-379: the loop over data from its k-th segment on;
\* an exception ends it.
RECURSIVE FeedData(_, _, _, _, _, _, _)
FeedData(s, data, k, currentCount, hasCode, regionEntry, read) ==
    IF k > Len(data) \/ s.fault # "none" THEN s
    ELSE
      LET i == data[k]
      IN  FeedData(skipTo(s, i.Line, i.Col, currentCount, hasCode, regionEntry, read),
                   data, k + 1, i.Count, i.HasCount /\ ~i.IsGapRegion,
                   IF i.IsRegionEntry THEN i.Line ELSE 0, read)

\* processCode: the reader and writer it leaves; for a file that cannot be
\* opened hitLines = executableLines = 0 and nothing else is done.
processCode(file, extraIgnore, data, read) ==
    IF ~file.isOpen THEN NewReader(<<>>)
    ELSE
      LET s == FeedData(NewReader(SourceReaderLines(file.text, extraIgnore)),
                        data, 1, 0, FALSE, 0, read)
      IN  IF s.fault # "none" THEN s ELSE flush(s, read)

\* A run of processCode over file and data reads lines[lineNo - 1] with lineNo = 0.
ReadsInvalid(file, data) == file.isOpen /\ (Len(data) = 0 \/ Len(file.text) = 0)

\* Mutant of processFile: every file is reported.
processFileAlways(s) == TRUE

\* The value processFile returns after the run s of processCode:
\* if (!executableLines) return false; ... return true;
processFile(s) == s.executableLines # 0

\* struct FileInfo; the name of a file is its place among the files.
FileInfo(prettyName, s) ==
    [prettyName |-> prettyName, hitLines |-> s.hitLines,
     executableLines |-> s.executableLines]

\* The comparison main sorts fileInfo with, lines 750-756.
FileInfoLess(a, b) ==
    LET perc1 == computePerc(a.hitLines, a.executableLines)
        perc2 == computePerc(b.hitLines, b.executableLines)
    IN  IF perc1 # perc2 THEN perc1 < perc2 ELSE a.prettyName < b.prettyName

RECURSIVE InsertFileInfo(_, _)
InsertFileInfo(sorted, a) ==
    IF sorted = <<>> THEN <<a>>
    ELSE IF FileInfoLess(a, Head(sorted)) THEN <<a>> \o sorted
    ELSE <<Head(sorted)>> \o InsertFileInfo(Tail(sorted), a)

\* sort(fileInfo.begin(), fileInfo.end(), ...)
RECURSIVE SortFileInfo(_)
SortFileInfo(info) ==
    IF info = <<>> THEN <<>>
    ELSE InsertFileInfo(SortFileInfo(Tail(info)), Head(info))

\* main, lines 761-765: the sums of the summary.
RECURSIVE SumFileInfo(_)
SumFileInfo(info) ==
    IF info = <<>> THEN [hitLines |-> 0, executableLines |-> 0]
    ELSE LET rest == SumFileInfo(Tail(info))
         IN  [hitLines |-> rest.hitLines + Head(info).hitLines,
              executableLines |-> rest.executableLines + Head(info).executableLines]

\* coverageList after the run s of processCode over the file named name:
\* finishLine creates the entry with the first executable line.
CoverageListAfter(list, name, s) ==
    IF s.hits = <<>> /\ s.misses = <<>> THEN list
    ELSE [n \in DOMAIN list \cup {name} |->
            IF n = name THEN [hits |-> s.hits, misses |-> s.misses] ELSE list[n]]

\* A source file of the coverage mapping with the segments of its data.
SourceFile(file, data) == [file |-> file, data |-> data]

\* The source files main goes through: one that cannot be opened, the two
\* documented scenarios, one whose line is covered, one without executable
\* lines and one whose data makes flush throw.
SourceFiles ==
    { SourceFile(NoFile, << Segment(1, 1, 5, TRUE, TRUE, FALSE) >>),
      SourceFile(File(Scenario("if").file), Scenario("if").data),
      SourceFile(File(<<TxtReturn>>),
                 << Segment(1, 1, 5, TRUE, TRUE, FALSE),
                    Segment(1, 10, 0, FALSE, FALSE, FALSE) >>),
      SourceFile(File(<<TxtBrace>>), << Segment(1, 1, 3, TRUE, TRUE, FALSE) >>),
      SourceFile(File(<<TxtReturn>>), << Segment(1, 500, 3, TRUE, TRUE, FALSE) >>) }

\* ------------------------------------------------------------------------
\* State
\* ------------------------------------------------------------------------

VARIABLES
    pc,              \* position in processCode / processFile
    file,            \* the source file: whether it can be opened, and its text
    extraIgnore,     \* the --exclude-line arguments
    lines,           \* SourceReader::lines
    lineNo,          \* SourceReader::lineNo
    colPos,          \* SourceReader::colPos
    parts,           \* SourceWriter::parts
    executableLines, \* SourceWriter::executableLines
    hitLines,        \* SourceWriter::hitLines
    hits,            \* coverageList[fileName].hits
    misses,          \* coverageList[fileName].misses
    out,             \* the lines written to out, one record per finishLine call
    fault,           \* how the run failed, "none" while it has not
    currentCount,    \* processCode: currentCount
    hasCode,         \* processCode: hasCode
    regionEntry,     \* processCode: regionEntry
    fed,             \* number of segments of data consumed
    last,            \* (Line, Col) of the last segment consumed
    matching,        \* the scenarios whose file and data agree with the run so far
    arg,             \* argument of a function applied on its own
    ret,             \* its result
    files,           \* main: the source files of the coverage mapping, with their data
    fileDone,        \* main: number of files the loop has gone through
    fileInfo,        \* main: fileInfo
    coverageList,    \* main: coverageList, from file to its hit and miss lists
    summary          \* main: hitLines and executableLines of the summary

readerVars == <<lines, lineNo, colPos, parts, executableLines, hitLines,
                hits, misses, out, fault>>

loopVars == <<currentCount, hasCode, regionEntry, fed, last, matching>>

callVars == <<arg, ret>>

mainVars == <<files, fileDone, fileInfo, coverageList, summary>>

vars == <<pc, file, extraIgnore, readerVars, loopVars, callVars, mainVars>>

\* The reader, its writer and its coverage list entry as one record.
Cur ==
    [lines |-> lines, lineNo |-> lineNo, colPos |-> colPos, parts |-> parts,
     executableLines |-> executableLines, hitLines |-> hitLines,
     hits |-> hits, misses |-> misses, out |-> out, fault |-> fault]

Store(s) ==
    /\ lines' = s.lines
    /\ lineNo' = s.lineNo
    /\ colPos' = s.colPos
    /\ parts' = s.parts
    /\ executableLines' = s.executableLines
    /\ hitLines' = s.hitLines
    /\ hits' = s.hits
    /\ misses' = s.misses
    /\ out' = s.out
    /\ fault' = s.fault

\* No function is applied on its own.
NoCall == arg = <<>> /\ ret = <<>>

\* main, lines 716-719, before the loop over the files.
NoFiles ==
    /\ fileDone = 0
    /\ fileInfo = <<>>
    /\ coverageList = <<>>
    /\ summary = [hitLines |-> 0, executableLines |-> 0]

\* processCode, line 362, before the file is opened.
Fresh ==
    /\ lines = <<>> /\ lineNo = 0 /\ colPos = 0 /\ parts = <<>>
    /\ executableLines = 0 /\ hitLines = 0
    /\ hits = <<>> /\ misses = <<>> /\ out = <<>> /\ fault = "none"
    /\ currentCount = 0 /\ hasCode = FALSE /\ regionEntry = 0
    /\ fed = 0 /\ last = <<0, 0>> /\ matching = {}

Init ==
    /\ pc = "open"
    /\ \E r \in Jobs : file = r.file /\ extraIgnore = r.extraIgnore
    /\ Fresh
    /\ NoCall
    /\ files = <<>>
    /\ NoFiles

\* processCode, lines 363-373: the file is opened and the reader constructed.
OpenFile ==
    /\ pc = "open"
    /\ IF ~file.isOpen
       THEN /\ pc' = "nosource"
            /\ UNCHANGED <<readerVars, loopVars>>
       ELSE /\ pc' = "loop"
            /\ lines' = SourceReaderLines(file.text, extraIgnore)
            /\ matching' = {n \in ScenarioNames :
                              /\ Scenario(n).file = file.text
                              /\ Scenario(n).extraIgnore = extraIgnore}
            /\ UNCHANGED <<lineNo, colPos, parts, executableLines, hitLines, hits,
                           misses, out, fault, currentCount, hasCode, regionEntry,
                           fed, last>>
    /\ UNCHANGED <<file, extraIgnore, callVars, mainVars>>

\* processCode, lines 374-379: one iteration of the loop over data, whose next
\* segment i is not before the last one.
NextSegment ==
    /\ pc = "loop"
    /\ fed < MaxEvents
    /\ \E i \in Segments(Len(lines)) :
         /\ NotAfter(last, <<i.Line, i.Col>>)
         /\ \E read \in (IF ReadsNoLine(Cur, i.Col) THEN InvalidReads ELSE {ValidRead}) :
              LET s == skipTo(Cur, i.Line, i.Col, currentCount, hasCode,
                              regionEntry, read)
              IN  /\ Store(s)
                  /\ pc' = IF s.fault = "none" THEN "loop" ELSE "failed"
         /\ currentCount' = i.Count
         /\ hasCode' = (i.HasCount /\ ~i.IsGapRegion)
         /\ regionEntry' = IF i.IsRegionEntry THEN i.Line ELSE 0
         /\ fed' = fed + 1
         /\ last' = <<i.Line, i.Col>>
         /\ matching' = {n \in matching :
                            /\ fed < Len(Scenario(n).data)
                            /\ Scenario(n).data[fed + 1] = i}
    /\ UNCHANGED <<file, extraIgnore, callVars, mainVars>>

\* processCode, lines 380-384: the end of data; the function returns and its
\* locals are gone.
EndOfData ==
    /\ pc = "loop"
    /\ \E read \in (IF lineNo = 0 THEN InvalidReads ELSE {ValidRead}) :
         LET s == flush(Cur, read)
         IN  /\ Store(s)
             /\ pc' = IF s.fault = "none" THEN "done" ELSE "failed"
    /\ matching' = {n \in matching : Len(Scenario(n).data) = fed}
    /\ currentCount' = 0
    /\ hasCode' = FALSE
    /\ regionEntry' = 0
    /\ UNCHANGED <<file, extraIgnore, fed, last, callVars, mainVars>>

Next == OpenFile \/ NextSegment \/ EndOfData

Spec == Init /\ [][Next]_vars

\* ------------------------------------------------------------------------
\* Functions applied on their own: the argument is drawn by the initial
\* state, one step applies the function.
\* ------------------------------------------------------------------------

\* No reader runs: the variables of processCode keep their first values.
Idle ==
    /\ pc = "call"
    /\ file = NoFile
    /\ extraIgnore = << >>
    /\ Fresh
    /\ ret = << >>
    /\ files = <<>>
    /\ NoFiles

Return(value) ==
    /\ pc = "call"
    /\ pc' = "returned"
    /\ ret' = <<value>>
    /\ UNCHANGED <<file, extraIgnore, readerVars, loopVars, arg, mainVars>>

\* Line counts given to computePerc, among them the first ones whose
\* product with 1000 passes 2^32.
PercValues ==
    {0, 1, 2, 3, 7, 999, 1000, 1001, 4294967, 4294968, 8589935, 1073741824, MaxInt}

InitPerc ==
    /\ Idle
    /\ \E hit \in PercValues : \E executable \in PercValues :
         hit <= executable /\ arg = <<hit, executable>>

CallComputePerc == Return(computePerc(arg[1], arg[2]))

SpecPerc == InitPerc /\ [][CallComputePerc]_vars

\* The characters of the texts given to isTrivialCode.
TrivialAlphabet == {" ", "\t", "{", "}", ";", "t", "x"}

\* The texts of length n over an alphabet.
TextsOf(alphabet, n) == [1..n -> alphabet]

InitTrivial ==
    /\ Idle
    /\ \E n \in 0..MaxLen : arg \in TextsOf(TrivialAlphabet, n)

CallIsTrivialCode == Return(isTrivialCode(arg))

SpecTrivial == InitTrivial /\ [][CallIsTrivialCode]_vars

\* The lines of the files given to the constructor.
LinePool ==
    {TxtCall, TxtFoo, TxtBrace, TxtExclLine, TxtStart, TxtStop, TxtStartStop,
     TxtStopStart}

InitFirstPass ==
    /\ Idle
    /\ \E n \in 0..MaxLines : \E raw \in TextsOf(LinePool, n) :
         \E extra \in ExtraIgnores : arg = <<raw, extra>>

CallFirstPass == Return(FirstPass(arg[1], arg[2]).lines)

SpecFirstPass == InitFirstPass /\ [][CallFirstPass]_vars

\* The lines of the files given to the whole constructor.
WidenPool == {MarkLine, TxtCall, TxtFoo, TxtSemiBrace, TxtBrace, TxtStart}

InitSourceReader ==
    /\ Idle
    /\ \E n \in 0..MaxLines : \E raw \in TextsOf(WidenPool, n) :
         \E extra \in ExtraIgnores : arg = <<raw, extra>>

CallSourceReader == Return(SourceReaderLines(arg[1], arg[2]))

SpecSourceReader == InitSourceReader /\ [][CallSourceReader]_vars

\* A reader over three lines whose first segment is at (1, 1), with the state
\* (count, code) after it.  The next segment is at (3, 1): line 2 is skipped.
SkippedSecondLine(ls, count, code) ==
    LET s == skipTo(NewReader(ls), 1, 1, 0, FALSE, 0, ValidRead)
    IN  skipTo(s, 3, 1, count, code, 0, ValidRead)

\* The segments at the columns cols[k..] of line 2, all with the state
\* (count, code).
RECURSIVE SplitAt(_, _, _, _, _)
SplitAt(s, cols, k, count, code) ==
    IF k > Len(cols) THEN s
    ELSE SplitAt(skipTo(s, 2, cols[k], count, code, 0, ValidRead),
                 cols, k + 1, count, code)

\* The same reader when segments with the same state are at (2, 1) and at the
\* columns cols of line 2 before the one at (3, 1): line 2 is open and split.
OpenSecondLine(ls, count, code, cols) ==
    LET s == skipTo(NewReader(ls), 1, 1, 0, FALSE, 0, ValidRead)
        entered == skipTo(s, 2, 1, count, code, 0, ValidRead)
    IN  skipTo(SplitAt(entered, cols, 1, count, code), 3, 1, count, code, 0, ValidRead)

\* The columns of the segments inside line 2.
ColumnSplits == { <<>>, <<3>>, <<5>>, <<3, 5>> }

InitSpan ==
    /\ Idle
    /\ \E raw \in TextsOf(WidenPool, 3) : \E extra \in ExtraIgnores :
         \E count \in {0, 3} : \E code \in BOOLEAN : \E cols \in ColumnSplits :
            arg = [lines |-> SourceReaderLines(raw, extra), count |-> count,
                   hasCode |-> code, cols |-> cols]

\* Both readers have finished lines 1 and 2: the result is what finishLine
\* wrote for line 2 in each.
CallSkipTo ==
    Return([skipped |-> SkippedSecondLine(arg.lines, arg.count, arg.hasCode).out[2],
            open |-> OpenSecondLine(arg.lines, arg.count, arg.hasCode, arg.cols).out[2]])

SpecSpan == InitSpan /\ [][CallSkipTo]_vars

\* ------------------------------------------------------------------------
\* main: the loop over the files and the summary
\* ------------------------------------------------------------------------

InitMain ==
    /\ pc = "files"
    /\ file = NoFile
    /\ extraIgnore \in ExtraIgnores
    /\ Fresh
    /\ NoCall
    /\ \E n \in 0..MaxFiles : files \in TextsOf(SourceFiles, n)
    /\ NoFiles

\* main, lines 720-749: one iteration of the loop over files, with the calls
\* of processFile and processCode it makes.
ProcessFile ==
    /\ pc = "files"
    /\ fileDone < Len(files)
    /\ LET f == files[fileDone + 1]
       IN  \E read \in (IF ReadsInvalid(f.file, f.data) THEN InvalidReads
                        ELSE {ValidRead}) :
             LET s == processCode(f.file, extraIgnore, f.data, read)
             IN  /\ Store(s)
                 /\ file' = f.file
                 /\ pc' = IF s.fault = "none" THEN "files" ELSE "failed"
                 /\ coverageList' = CoverageListAfter(coverageList, fileDone + 1, s)
                 /\ fileInfo' = IF s.fault = "none" /\ processFile(s)
                                 THEN Append(fileInfo, FileInfo(fileDone + 1, s))
                                 ELSE fileInfo
    /\ fileDone' = fileDone + 1
    /\ UNCHANGED <<extraIgnore, loopVars, callVars, files, summary>>

\* main, lines 750-767: after the loop fileInfo is sorted and summed up.
Summarize ==
    /\ pc = "files"
    /\ fileDone = Len(files)
    /\ pc' = "summary"
    /\ fileInfo' = SortFileInfo(fileInfo)
    /\ summary' = SumFileInfo(fileInfo)
    /\ UNCHANGED <<file, extraIgnore, readerVars, loopVars, callVars, files,
                   fileDone, coverageList>>

NextMain == ProcessFile \/ Summarize

SpecMain == InitMain /\ [][NextMain]_vars

\* ------------------------------------------------------------------------
\* Properties
\* ------------------------------------------------------------------------

NoDuplicates(seq) == \A j, k \in 1..Len(seq) : seq[j] = seq[k] => j = k

Range(seq) == {seq[k] : k \in 1..Len(seq)}

\* The line numbers finishLine was called with, in the order of the calls.
Finished == [k \in 1..Len(out) |-> out[k].lineNo]

\* C1: after the skipTo calls and flush, for every ordered event stream (also
\* one that names a line past the end of the source), the hit list and the
\* miss list share no line number, neither holds a line number twice,
\* executableLines = |hits| + |misses| and hitLines = |hits|.
C1_StatisticsPartition ==
    pc = "done" =>
       /\ Range(hits) \cap Range(misses) = {}
       /\ NoDuplicates(hits)
       /\ NoDuplicates(misses)
       /\ executableLines = Len(hits) + Len(misses)
       /\ hitLines = Len(hits)

\* The last event names a line of the source and a column beyond its length.
ColumnBeyondLine ==
    /\ last[1] \in 1..Len(lines)
    /\ last[2] > Len(lines[last[1]].line)

\* C2: an event whose column lies beyond the length of its line never makes
\* the run fail: skipTo clamps the fragment, and every later operation on the
\* reader ends without an out-of-range access or exception.
C2_ColumnBeyondLineNeverFails == ColumnBeyondLine => fault = "none"

\* C3: for a source of N lines and any ordered event stream, also the empty
\* one, skipTo and flush call finishLine exactly once for each of 1..N, in
\* increasing order, and for no other number; the lines no event touched get
\* from flush one fragment with their whole text, count 0 and hasCode false.
C3_EachLineFinishedOnce ==
    pc = "done" =>
       /\ Finished = [k \in 1..Len(lines) |-> k]
       /\ \A k \in (last[1] + 1)..Len(lines) :
             out[k].parts = <<Part(lines[k].line, 0, FALSE, FALSE)>>

\* A fragment that is not trivial, has hasCode and has a count above 0.
CoveredCode(p) == ~isTrivialCode(p.str) /\ p.hasCode /\ p.count > 0

\* The finishLine calls whose line has such a fragment.
CoveredLines == {k \in 1..Len(out) : \E j \in 1..Len(out[k].parts) :
                                        CoveredCode(out[k].parts[j])}

\* C4: finishLine records a line as hit (one more hitLines, the number
\* appended to the hit list) if and only if one of its fragments is not
\* trivial, has hasCode and has a count above 0; and hitCandidates <=
\* candidates for every line.
C4_HitIffCoveredCodeFragment ==
    /\ hitLines = Cardinality(CoveredLines)
    /\ Len(hits) = Cardinality(CoveredLines)
    /\ \A k \in 1..Len(out) : out[k].hitCandidates <= out[k].candidates

\* Line n was excluded as a whole by the first loop of the constructor.
ExcludedByFirstPass(n) ==
    /\ n \in 1..Len(lines)
    /\ LET i == FirstPass(file.text, extraIgnore).lines[n]
       IN  i.ignoreFrom # i.ignoreTo

CodeOnlyWithCount(ps) == \A j \in 1..Len(ps) : ps[j].hasCode => ps[j].count # 0

\* C5: a line excluded as a whole by the first pass is never in the miss
\* list, whatever the event stream: each of its fragments is code only with
\* a count above 0.
C5_ExcludedLineNeverMissed ==
    /\ \A k \in 1..Len(misses) : ~ExcludedByFirstPass(misses[k])
    /\ \A k \in 1..Len(out) :
          ExcludedByFirstPass(out[k].lineNo) => CodeOnlyWithCount(out[k].parts)
    /\ ExcludedByFirstPass(lineNo) => CodeOnlyWithCount(parts)

\* An excluded line was recorded as hit, and another finishLine call found an
\* excluded line with text that is not trivial and no code.
C5_Witness ==
    /\ pc = "done"
    /\ \E k \in 1..Len(hits) : ExcludedByFirstPass(hits[k])
    /\ \E k \in 1..Len(out) :
          /\ ExcludedByFirstPass(out[k].lineNo)
          /\ out[k].candidates = 0
          /\ \E j \in 1..Len(out[k].parts) : ~isTrivialCode(out[k].parts[j].str)

\* The run was the scenario name, from the first segment to the end of data.
Ran(name) == pc = "done" /\ name \in matching

\* C6 as stated: for "if (x) {", "  foo();", "}" with the events (1,1,3),
\* (2,3,0), (3,1,3), line 2 is in the miss list, lines 1 and 3 are in the hit
\* list, executableLines = 3 and hitLines = 2.
C6_IfScenarioAsStated ==
    Ran("if") =>
       /\ misses = <<2>>
       /\ hits = <<1, 3>>
       /\ executableLines = 3
       /\ hitLines = 2

\* C6, amended: line 2 is in the miss list and line 1 in the hit list; line 3,
\* the lone "}" that flush closes, is in neither; executableLines = 2 and
\* hitLines = 1.
C6_IfScenario ==
    Ran("if") =>
       /\ misses = <<2>>
       /\ hits = <<1>>
       /\ executableLines = 2
       /\ hitLines = 1
       /\ out[3].candidates = 0

C6_Witness == Ran("if") /\ Len(out) = 3

\* C7 as stated: for "return 1;" with the one event (1,1,5), line 1 is
\* executable and hit: hitLines = 1, executableLines = 1, computePerc 1000.
C7_ReturnScenarioAsStated ==
    Ran("return") =>
       /\ hitLines = 1
       /\ executableLines = 1
       /\ computePerc(hitLines, executableLines) = 1000

\* C7, amended: flush closes line 1 with count 0 and hasCode false, so line 1
\* is not executable: hitLines = 0, executableLines = 0, both lists are
\* empty and computePerc yields 0.
C7_ReturnScenario ==
    Ran("return") =>
       /\ hitLines = 0
       /\ executableLines = 0
       /\ hits = << >>
       /\ misses = << >>
       /\ computePerc(hitLines, executableLines) = 0

C7_Witness == Ran("return") /\ Finished = <<1>>

\* k * h = q * t + r with 0 <= r < t, for 0 <= h < t, by k additions that
\* never pass t.
RECURSIVE ExactTimes(_, _, _)
ExactTimes(h, t, k) ==
    IF k = 0 THEN [q |-> 0, r |-> 0]
    ELSE LET p == ExactTimes(h, t, k - 1)
         IN  IF p.r >= t - h
             THEN [q |-> p.q + 1, r |-> p.r - (t - h)]
             ELSE [q |-> p.q, r |-> p.r + h]

\* Ten times the number p.q * t + p.r, in the same form.
TimesTen(p, t) ==
    LET e == ExactTimes(p.r, t, 10)
    IN  [q |-> 10 * p.q + e.q, r |-> e.r]

\* floor(hit * 1000 / total) in exact arithmetic, for 0 < hit <= total.
ExactPermille(hit, total) ==
    IF hit = total THEN 1000
    ELSE TimesTen(TimesTen(TimesTen([q |-> 0, r |-> hit], total), total), total).q

\* C8: for hit <= total, computePerc(hit, total) is 0 when hit = 0 or
\* total = 0 and max(1, floor(hit * 1000 / total)) in exact arithmetic
\* otherwise; computePerc(N, N) = 1000 for N > 0; the result is in 0..1000.
C8_PercentageExact ==
    pc = "returned" =>
       /\ ret[1] = IF arg[1] = 0 \/ arg[2] = 0 THEN 0
                   ELSE Max(1, ExactPermille(arg[1], arg[2]))
       /\ (arg[1] = arg[2] /\ arg[1] > 0) => ret[1] = 1000
       /\ ret[1] \in 0..1000

\* C9: isTrivialCode is true of the texts made only of whitespace and braces
\* in any arrangement, of ";" and of "t", and false of every other text.
C9_TrivialTexts ==
    pc = "returned" =>
       ret[1] = \/ \A k \in 1..Len(arg) : IsSpace(arg[k]) \/ IsBrace(arg[k])
                \/ arg = <<";">>
                \/ arg = <<"t">>

\* Line k of raw lies in a block: a line s at or before it contains
\* LCOV_EXCL_START and no line from s to the one before k contains
\* LCOV_EXCL_STOP.
InBlock(raw, k) ==
    \E s \in 1..k :
       /\ Contains(raw[s], MarkStart)
       /\ \A j \in s..(k - 1) : ~Contains(raw[j], MarkStop)

\* C10: in the first pass a line with LCOV_EXCL_START opens a block that
\* covers it and the lines after it up to and including the line with
\* LCOV_EXCL_STOP, also when one line holds both markers; the lines of the
\* block get a whole-line span and the lines after the stop line are not
\* excluded by the block.
C10_BlockExclusion ==
    pc = "returned" =>
       \A k \in 1..Len(arg[1]) :
          LET i == ret[1][k]
          IN  IF InBlock(arg[1], k)
              THEN i.ignoreFrom = 0 /\ i.ignoreTo >= Len(i.line) /\ i.ignoreTo > 0
              ELSE i.ignoreFrom # i.ignoreTo
                      => \/ Contains(arg[1][k], MarkLine)
                         \/ MatchesExtraIgnore(arg[1][k], arg[2])

\* Position p of l holds ";" and only blanks and braces follow it, and the
\* text before p is not trivial.
SemicolonEnds(l, p) ==
    /\ p \in 2..Len(l)
    /\ l[p] = ";"
    /\ \A j \in (p + 1)..Len(l) : l[j] \in {" ", "\t", "{", "}"}
    /\ ~isTrivialCode(SubSeq(l, 1, p - 1))

\* Line k of raw holds only the single-line marker, and the line before it
\* ends in a ";" after content that is not trivial and got no span from the
\* first pass.
MarkerAfterStatement(raw, extra, k) ==
    /\ k \in 2..Len(raw)
    /\ raw[k] = MarkLine
    /\ \E p \in 1..Len(raw[k - 1]) : SemicolonEnds(raw[k - 1], p)
    /\ LET i == FirstPass(raw, extra).lines[k - 1]
       IN  i.ignoreFrom = i.ignoreTo

\* The span of the line before the marker line k starts at its ";" and ends
\* at its end, and the lines before it are what they are without line k.
WidenedToSemicolon(raw, extra, k, result) ==
    /\ LET i == result[k - 1]
       IN  /\ i.ignoreFrom # i.ignoreTo
           /\ i.ignoreTo = Len(i.line)
           /\ SemicolonEnds(i.line, i.ignoreFrom + 1)
    /\ \A j \in 1..(k - 2) :
          result[j] = SourceReaderLines(SubSeq(raw, 1, k - 1), extra)[j]

\* C11 as stated: whenever a line holds only the single-line marker and the
\* line before it ends in a ";" after content that is not trivial and has no
\* span of its own, the constructed reader gives the line before a span that
\* is not empty, ends at the end of the line, starts at the ";" (so covers
\* nothing of the content before it), and no earlier line is changed.
C11_PropagationAsStated ==
    pc = "returned" =>
       \A k \in 1..Len(arg[1]) :
          MarkerAfterStatement(arg[1], arg[2], k)
             => WidenedToSemicolon(arg[1], arg[2], k, ret[1])

\* No earlier single-line exclusion has given line k - 1 a span: the reader
\* constructed over the lines up to k - 1 leaves it without one.
NotWidenedBefore(raw, extra, k) ==
    LET i == SourceReaderLines(SubSeq(raw, 1, k - 1), extra)[k - 1]
    IN  i.ignoreFrom = i.ignoreTo

\* C11, amended: the same, for a line before the marker that has no span
\* from the first pass and none from the forward propagation of an earlier
\* single-line exclusion.
C11_Propagation ==
    pc = "returned" =>
       \A k \in 1..Len(arg[1]) :
          (MarkerAfterStatement(arg[1], arg[2], k) /\ NotWidenedBefore(arg[1], arg[2], k))
             => WidenedToSemicolon(arg[1], arg[2], k, ret[1])

\* The constructor ran over "a; }" followed by the marker line.
C11_Witness ==
    /\ pc = "returned"
    /\ \E k \in 2..Len(arg[1]) :
          /\ MarkerAfterStatement(arg[1], arg[2], k)
          /\ NotWidenedBefore(arg[1], arg[2], k)
          /\ arg[1][k - 1] = TxtSemiBrace
          /\ ret[1][k - 1].ignoreFrom = 1

\* The loop of main is about to process a file that cannot be opened.
AtMissingSource ==
    /\ pc = "files"
    /\ fileDone < Len(files)
    /\ ~files[fileDone + 1].file.isOpen

\* The step leaves the statistics at 0, reconstructs nothing, leaves the
\* lists and fileInfo as they are and goes on with the next file.
MissingSourceStep ==
    AtMissingSource =>
       /\ hitLines' = 0
       /\ executableLines' = 0
       /\ out' = <<>>
       /\ coverageList' = coverageList
       /\ fileInfo' = fileInfo
       /\ fileDone' = fileDone + 1
       /\ pc' = "files"

\* What the files that can be opened and have executable lines add up to.
RECURSIVE OpenedTotal(_, _)
OpenedTotal(fs, extra) ==
    IF fs = <<>> THEN [hitLines |-> 0, executableLines |-> 0]
    ELSE LET rest == OpenedTotal(Tail(fs), extra)
             s == processCode(Head(fs).file, extra, Head(fs).data, ValidRead)
         IN  IF Head(fs).file.isOpen
             THEN [hitLines |-> rest.hitLines + s.hitLines,
                   executableLines |-> rest.executableLines + s.executableLines]
             ELSE rest

\* No file that cannot be opened is ranked or has lists, and the totals are
\* those of the other files.
SummaryWithoutMissing ==
    /\ \A k \in 1..Len(fileInfo) : files[fileInfo[k].prettyName].file.isOpen
    /\ \A n \in DOMAIN coverageList : files[n].file.isOpen
    /\ pc = "summary" => summary = OpenedTotal(files, extraIgnore)

\* C12: for a source file that cannot be opened processCode reconstructs
\* nothing, hitLines and executableLines are 0, the hit and miss lists stay as
\* they are, the file adds nothing to the totals and the ranking, and main
\* goes on with the next file.
C12_MissingSource == [][MissingSourceStep]_vars /\ []SummaryWithoutMissing

\* The summary of a run whose first file could not be opened and whose
\* second file is ranked.
C12_Witness ==
    /\ pc = "summary"
    /\ Len(files) >= 2
    /\ ~files[1].file.isOpen
    /\ \E k \in 1..Len(fileInfo) : fileInfo[k].prettyName = 2
    /\ summary.executableLines > 0

\* What finishLine made of a line: not executable, hit or missed.
Outcome(written) ==
    IF written.candidates = 0 THEN "none"
    ELSE IF written.hitCandidates > 0 THEN "hit" ELSE "miss"

\* C13: for the same line text, exclusion span and previous state (count,
\* hasCode), a line is executable, hit or missed alike whether skipTo emits it
\* as a skipped line or as the open target line split by column segments.
C13_SpanHonoredAlike ==
    pc = "returned" => Outcome(ret[1].skipped) = Outcome(ret[1].open)

\* The fragments from the k-th on.
FragmentsFrom(ps, k) == {ps[j] : j \in k..Len(ps)}

\* The fragments the step has emitted: those added to the line that was open,
\* those of the lines finished after it and those of the line now open.
NewFragments ==
    IF Len(out') > Len(out)
    THEN UNION { FragmentsFrom(out'[Len(out) + 1].parts, Len(parts) + 1),
                 UNION {FragmentsFrom(out'[k].parts, 1) : k \in (Len(out) + 2)..Len(out')},
                 FragmentsFrom(parts', 1) }
    ELSE FragmentsFrom(parts', Len(parts) + 1)

\* The step is the skipTo call for the next segment of data.
SegmentStep == pc = "loop" /\ fed' = fed + 1

FragmentsCarryPreviousState ==
    SegmentStep =>
       \A p \in NewFragments :
          /\ p.count = currentCount
          /\ p.hasCode => hasCode

\* C14: every fragment emitted for the text between two consecutive segments
\* carries the count of the first of them and is code only if that one has a
\* count and is no gap region, never the state of the second; the text before
\* the first segment has count 0 and is not code.
C14_PreviousStateApplied == [][FragmentsCarryPreviousState]_vars

\* Two segments with different states: the one at (1, 1) with count 3, the
\* next two lines further down with count 5; the rest of line 1 and the
\* skipped line 2 were emitted with count 3 as code.
C14_Witness ==
    /\ pc = "loop"
    /\ fed = 2
    /\ currentCount = 5
    /\ parts = <<>>
    /\ Len(out) = 2
    /\ \A k \in 1..2 : /\ Len(out[k].parts) = 1
                        /\ out[k].parts[1].count = 3
                        /\ out[k].parts[1].hasCode

\* What the step wrote for the lines it skipped as a whole: the lines it
\* finished, but for the line that was open before it.
SkippedRecords ==
    {out'[k] : k \in (Len(out) + (IF lineNo = 0 THEN 1 ELSE 2))..Len(out')}

\* The step leaves the line of its segment open: none of the lines it
\* finished is that line, and the reader stands in it.
TargetStaysOpen ==
    last'[1] <= Len(lines) =>
       /\ lineNo' = last'[1]
       /\ \A k \in (Len(out) + 1)..Len(out') : out'[k].lineNo < last'[1]

\* The texts of the fragments.
Texts(ps) == [j \in 1..Len(ps) |-> ps[j].str]

SkippedLinesInOneFragment ==
    SegmentStep =>
       /\ \A r \in SkippedRecords : Texts(r.parts) = <<lines[r.lineNo].line>>
       /\ TargetStaysOpen

\* C15 as stated: a skipTo call that advances to a later line completes every
\* line it skips with exactly one fragment holding the whole text of the
\* line, whatever the exclusion span of the line, and leaves the target line
\* open.
C15_SkippedLinesAsStated == [][SkippedLinesInOneFragment]_vars

\* The text of line i before, inside and after its exclusion span; one
\* text when the span is empty or begins the line and reaches its end.
SpanPieces(i) ==
    LET size == Len(i.line)
        to == IF i.ignoreTo < size THEN i.ignoreTo ELSE size
        from == IF i.ignoreFrom < to THEN i.ignoreFrom ELSE to
    IN  IF i.ignoreFrom = i.ignoreTo THEN <<i.line>>
        ELSE (IF i.ignoreFrom # 0 THEN <<SubSeq(i.line, 1, from)>> ELSE <<>>)
             \o <<SubSeq(i.line, from + 1, to)>>
             \o (IF i.ignoreTo < size THEN <<SubSeq(i.line, to + 1, size)>> ELSE <<>>)

SkippedLinesInSpanPieces ==
    SegmentStep =>
       /\ \A r \in SkippedRecords : Texts(r.parts) = SpanPieces(lines[r.lineNo])
       /\ TargetStaysOpen

\* C15, amended: the call completes every line it skips with one fragment
\* holding the whole text when the exclusion span of the line is empty or is
\* the whole line, and otherwise with the text before the span (if any), the
\* text of the span and the text after it (if any) as separate fragments; it
\* leaves the target line open.
C15_SkippedLines == [][SkippedLinesInSpanPieces]_vars

\* The first segment is in line 2 and line 1, whose span covers only its
\* end, was skipped in two fragments.
C15_Witness ==
    /\ pc = "loop"
    /\ fed = 1
    /\ lineNo = 2
    /\ Len(out) = 1
    /\ out[1].lineNo = 1
    /\ Len(out[1].parts) = 2

\* The texts joined in their order.
RECURSIVE Joined(_)
Joined(texts) == IF texts = <<>> THEN <<>> ELSE Head(texts) \o Joined(Tail(texts))

\* The fragments finishLine got for a line of the source make up its text.
TextKept(written) ==
    written.lineNo \in 1..Len(lines) =>
       Joined(Texts(written.parts)) = lines[written.lineNo].line

\* The reader stands in no line yet, or in line n at column c with the
\* fragments ps that make up the text of the line before c.
OpenTextKept(n, c, ps) ==
    IF n = 0 THEN c = 0 /\ ps = <<>>
    ELSE /\ n <= Len(lines)
         /\ c <= Len(lines[n].line)
         /\ Joined(Texts(ps)) = SubSeq(lines[n].line, 1, c)

\* The position lies within the source: a line of it, and a column of that
\* line or the one after its last character.
InSource(pos) ==
    /\ pos[1] \in 1..Len(lines)
    /\ pos[2] \in 1..(Len(lines[pos[1]].line) + 1)

\* The step is the flush call at the end of data.
FlushStep == pc = "loop" /\ fed' = fed /\ pc' # "loop"

\* A skipTo call for a segment within the source, and a flush call, on a
\* reader whose open line is made up of its fragments so far: every line
\* finished by the call is made up of its fragments, the call does not fail,
\* and the line skipTo leaves open is again made up of its fragments.
TextPreservedByStep ==
    /\ (SegmentStep /\ OpenTextKept(lineNo, colPos, parts) /\ InSource(last'))
          => /\ \A k \in (Len(out) + 1)..Len(out') : TextKept(out'[k])
             /\ OpenTextKept(lineNo', colPos', parts')
             /\ fault' = "none"
    /\ (FlushStep /\ OpenTextKept(lineNo, colPos, parts))
          => /\ \A k \in (Len(out) + 1)..Len(out') : TextKept(out'[k])
             /\ lineNo > 0 => fault' = "none"

\* C16: for an ordered stream of segments within the source, the texts of
\* the fragments a line of the source has when finishLine is called for it,
\* joined in the order they were added, are the text of the line: column
\* splitting, span splitting and flush drop, repeat and reorder nothing.
C16_TextPreserved == [][TextPreservedByStep]_vars

\* Segments at (1, 3) and (2, 1): line 1 was finished in two fragments, split
\* at column 3, and line 2 is open.
C16_Witness ==
    /\ pc = "loop"
    /\ fed = 2
    /\ last = <<2, 1>>
    /\ lineNo = 2
    /\ Len(out) = 1
    /\ Len(out[1].parts) = 2
    /\ Len(out[1].parts[1].str) = 2
    /\ TextKept(out[1])

====
